---- MODULE Spec2Model ----
(***************************************************************************)
(* Job state machine, queue worker and polling worker of                   *)
(* jarvis-recipes-server.                                                  *)
(*                                                                         *)
(* A job row lives in the database.  Every process (queue worker, polling  *)
(* worker, HTTP request) works on its own ORM copy of the row: a guard     *)
(* such as "if job.status in {...}: return" reads that copy, and           *)
(* db.commit() sends an UPDATE of the attributes the process changed,      *)
(* keyed by the primary key only.  Processes interleave at database        *)
(* statements and at network calls.                                        *)
(***************************************************************************)
EXTENDS Integers, FiniteSets, Sequences, TLC

\* ---------------------------------------------------------------- bounds
\* the clock runs from 1 to MaxTime where time passes: the polling worker
\* with its sweep, and the state machine alone
MaxTime == 3
\* the messages producers put on the queue
MaxProduce == 2
\* the length of the quantity strings that are normalised
MaxLen == 4
\* the pieces of the quantity strings that are split
MaxTokens == 4

\* ------------------------------------------------------ program constants
\* settings.llm_recipe_queue_max_retries
max_retries == 3
\* settings.recipe_parse_job_abandon_minutes, in clock ticks
abandon_ticks == 1

JobIds == {"j1"}
\* the rq worker processes and the polling worker processes
QueueWorkers == {"q1"}
PollWorkers == {"p1"}
Workers == QueueWorkers \cup PollWorkers
Clients == {"c1"}

None == "none"

\* RecipeParseJobStatus
PENDING == "PENDING"
RUNNING == "RUNNING"
COMPLETE == "COMPLETE"
ERROR == "ERROR"
CANCELED == "CANCELED"
COMMITTED == "COMMITTED"
ABANDONED == "ABANDONED"
ABSENT == "ABSENT"

RecipeParseJobStatus ==
    {PENDING, RUNNING, COMPLETE, ERROR, CANCELED, COMMITTED, ABANDONED}

Terminal == {COMPLETE, ERROR, CANCELED, COMMITTED, ABANDONED}

\* the states in which mark_running, mark_complete and mark_error return early
NoOpStates == {CANCELED, COMMITTED, ABANDONED}

\* the error codes the workers retry
RetryableCodes == {"llm_timeout", "llm_failed", "fetch_failed"}

\* models.RecipeParseJob; a timestamp of 0 is NULL, ABSENT is "no such row"
NoJob ==
    [job_type |-> None, use_llm_fallback |-> FALSE, job_data |-> None,
     status |-> ABSENT, result_json |-> None, error_code |-> None,
     attempts |-> 0, started_at |-> 0, completed_at |-> 0,
     committed_at |-> 0, abandoned_at |-> 0, canceled_at |-> 0]

Fields == DOMAIN NoJob

VARIABLES
    jobs,      \* the recipe_parse_jobs table: job id -> row
    queue,     \* envelopes waiting on jarvis.recipes.jobs
    produced,  \* envelopes put on the queue by producers so far
    now,       \* datetime.utcnow()
    wk,        \* per worker: position, ORM copy of the job, parse result
               \* (or the payload its OCR handler was called with)
    cl,        \* per HTTP request: position, ORM copy of the job
    hist,      \* per job: the outcome of its extraction attempts so far
    last,      \* the last call made on the state machine: name, row before
    call,      \* the parser or scorer call in progress: input, position,
               \* result
    stage,     \* the stage_recipes table: request id and expires_at of each
    ingestions \* the recipe_ingestions table: job id -> status

vars == <<jobs, queue, produced, now, wk, cl, hist, last, call, stage, ingestions>>

\* ------------------------------------------------------------ the store

\* What a process keeps of the row it loaded: the attributes its guards and
\* its arithmetic read
Loaded(row) == [status |-> row.status, attempts |-> row.attempts]

NoSnap == Loaded(NoJob)

\* The ORM object of a process: the row with status and attempts as loaded
View(row, snap) ==
    [row EXCEPT !.status = snap.status, !.attempts = snap.attempts]

\* db.commit(): the UPDATE carries the attributes whose value differs from
\* the one loaded, WHERE id = :id
Persist(row, loaded, obj) ==
    [f \in Fields |-> IF obj[f] # loaded[f] THEN obj[f] ELSE row[f]]

\* parse_job_service.create_job
create_job(job_type, use_llm_fallback, job_data) ==
    [NoJob EXCEPT !.job_type = job_type,
                  !.use_llm_fallback = use_llm_fallback,
                  !.job_data = job_data,
                  !.status = PENDING,
                  !.attempts = 0]

\* parse_job_service.mark_running: the object after the call
mark_running(job, t) ==
    IF job.status \in NoOpStates THEN job
    ELSE [job EXCEPT !.status = RUNNING, !.started_at = t,
                     !.attempts = job.attempts + 1]

\* the result_json mark_complete builds from a ParseResult
ResultJson(job, result) ==
    IF job.job_type \in {"url", "ingestion", "image"}
    THEN IF result.next_action # None THEN "draft_with_next_action"
         ELSE "recipe_draft"
    ELSE "payload"

\* a completion that writes whatever the status is
mark_complete_unguarded(job, result, t) ==
    [job EXCEPT !.status = COMPLETE, !.completed_at = t,
                !.result_json = ResultJson(job, result)]

\* parse_job_service.mark_complete
mark_complete(job, result, t) ==
    IF job.status \in NoOpStates THEN job
    ELSE [job EXCEPT !.status = COMPLETE, !.completed_at = t,
                     !.result_json = ResultJson(job, result)]

\* an error mark that writes whatever the status is
mark_error_unguarded(job, error_code, t) ==
    [job EXCEPT !.status = ERROR, !.completed_at = t,
                !.error_code = error_code]

\* parse_job_service.mark_error
mark_error(job, error_code, t) ==
    IF job.status \in NoOpStates THEN job
    ELSE [job EXCEPT !.status = ERROR, !.completed_at = t,
                     !.error_code = error_code]

\* parse_job_service.mark_committed
mark_committed(job, t) ==
    IF job.status # COMPLETE THEN job
    ELSE [job EXCEPT !.status = COMMITTED, !.committed_at = t]

\* parse_job_service.mark_canceled: <<ok, the object after the call>>
mark_canceled(job, t) ==
    IF job.status \notin {PENDING, RUNNING} THEN <<FALSE, job>>
    ELSE <<TRUE, [job EXCEPT !.status = CANCELED, !.canceled_at = t]>>

\* a sweep that abandons every COMPLETE job, whatever its age
abandon_any_complete(table, cutoff_ticks, t) ==
    [j \in DOMAIN table |->
        IF table[j].status = COMPLETE
        THEN [table[j] EXCEPT !.status = ABANDONED, !.abandoned_at = t]
        ELSE table[j]]

\* parse_job_service.abandon_stale_jobs: one UPDATE ... WHERE status = COMPLETE
\* AND completed_at IS NOT NULL AND completed_at < cutoff
abandon_stale_jobs(table, cutoff_ticks, t) ==
    [j \in DOMAIN table |->
        IF /\ table[j].status = COMPLETE
           /\ table[j].completed_at # 0
           /\ table[j].completed_at < t - cutoff_ticks
        THEN [table[j] EXCEPT !.status = ABANDONED, !.abandoned_at = t]
        ELSE table[j]]

\* parse_job_service.fetch_next_pending: the PENDING jobs of one type (the
\* code takes the oldest; the model holds one job per id)
fetch_next_pending(table, job_type) ==
    {j \in JobIds : table[j].status = PENDING /\ table[j].job_type = job_type}

\* run_parse_worker.process_one: the job the polling worker takes next
process_one_pick(table) ==
    IF fetch_next_pending(table, "ingestion") # {}
    THEN fetch_next_pending(table, "ingestion")
    ELSE IF fetch_next_pending(table, "image") # {}
    THEN fetch_next_pending(table, "image")
    ELSE IF fetch_next_pending(table, "meal_plan_generate") # {}
    THEN fetch_next_pending(table, "meal_plan_generate")
    ELSE fetch_next_pending(table, "url")

\* ----------------------------------------------------------- the queue

\* queue_service.create_envelope as enqueue_recipes_job fills it
create_envelope(job_type, job_id, workflow_id, payload) ==
    [fmt |-> "envelope", job_type |-> job_type, job_id |-> job_id,
     workflow_id |-> workflow_id, payload |-> payload]

\* an enqueue that drops the job's data
enqueue_job_no_data(q, job_type, job_id, job_data) ==
    q \cup {create_envelope(job_type, job_id, job_id, None)}

\* queue_service.enqueue_job: both branches call
\* enqueue_recipes_job(job_type, job_id, job_id, job_data)
enqueue_job(q, job_type, job_id, job_data) ==
    q \cup {create_envelope(job_type, job_id, job_id, job_data)}

\* a message in the legacy format: job_id, job_type and data only
legacy_message(job_type, job_id, payload) ==
    [fmt |-> "legacy", job_type |-> job_type, job_id |-> job_id,
     workflow_id |-> job_id, payload |-> payload]

\* a lookup that takes the envelope's job_id whatever its type
lookup_by_job_id(env) ==
    env.job_id

\* queue_worker.process_job: the id the job row is looked up by
lookup_id(env) ==
    IF env.fmt = "envelope" /\ env.job_type = "ocr.completed"
    THEN env.workflow_id
    ELSE env.job_id

\* queue_worker.process_job: the handler an envelope is routed to
route(env) ==
    IF env.fmt = "envelope"
    THEN CASE env.job_type = "ocr.completed" -> "ocr_completed"
           [] env.job_type = "recipe.import.url.requested" -> "url"
           [] env.job_type = "recipe.create.manual.requested" -> "manual"
           [] env.job_type = "ingestion" -> "ingestion"
           [] env.job_type = "meal_plan_generate" -> "meal_plan"
           [] OTHER -> "unknown"
    ELSE CASE env.job_type = "image" -> "image"
           [] env.job_type = "ingestion" -> "ingestion"
           [] env.job_type = "meal_plan_generate" -> "meal_plan"
           [] env.job_type = "url" -> "url"
           [] OTHER -> "unknown"

\* the messages a producer sends for a job of a given type
ProducerMessages(j, row) ==
    IF row.job_type = "url"
    THEN {create_envelope("recipe.import.url.requested", j, j, row.job_data),
          legacy_message("url", j, row.job_data)}
    ELSE {create_envelope(row.job_type, j, j, row.job_data),
          legacy_message(row.job_type, j, row.job_data)}

\* ------------------------------------------------------ the parse results

\* url_recipe_parser.ParseResult, the fields the workers read; raised is an
\* exception leaving the parser instead of a result
Result(success, error_code, warnings, next_action) ==
    [success |-> success, error_code |-> error_code, warnings |-> warnings,
     next_action |-> next_action, raised |-> FALSE]

Raised == [Result(FALSE, None, {}, None) EXCEPT !.raised = TRUE]

NoResult == Result(FALSE, None, {}, None)

\* url_recipe_parser.parse_recipe_from_url: what a call can return
parse_recipe_from_url(use_llm_fallback) ==
    {Result(TRUE, None, {}, None),
     Result(FALSE, "fetch_failed", {"encoding_error"}, "webview_extract"),
     Result(FALSE, "invalid_url", {}, None),
     Result(FALSE, "fetch_failed", {"blocked_by_site"}, None),
     Result(FALSE, "fetch_failed", {"fetch_http_error"}, None),
     Result(FALSE, "parse_failed", {}, None)}
    \cup
    (IF use_llm_fallback
     THEN {Result(FALSE, "llm_timeout", {}, None),
           Result(FALSE, "llm_failed", {}, None),
           Raised}
     ELSE {})

\* ingestion_service.parse_recipe: what a call can return
parse_recipe_ingestion ==
    {Result(TRUE, None, {}, None),
     Result(FALSE, "invalid_payload", {}, None),
     Result(FALSE, "fetch_failed", {"encoding_error"}, "webview_extract"),
     Result(FALSE, "invalid_url", {}, None),
     Result(FALSE, "fetch_failed", {"blocked_by_site"}, "webview_extract"),
     Result(FALSE, "fetch_failed", {"fetch_http_error"}, None),
     Result(FALSE, "not_implemented", {}, None),
     Result(FALSE, "llm_failed", {"llm_failed"}, None),
     Raised}

\* ------------------------------------------------------ retry decisions

\* a retry decision that looks at the error code only
should_retry_url_no_ceiling(job, result) ==
    result.error_code \in RetryableCodes

\* queue_worker._process_url_job / run_parse_worker.process_one (url)
should_retry_url(job, result) ==
    /\ job.attempts < max_retries
    /\ result.error_code \in RetryableCodes

\* queue_worker._process_ingestion_job / run_parse_worker.process_one
is_encoding_error(result) ==
    /\ result.error_code = "fetch_failed"
    /\ \/ "encoding_error" \in result.warnings
       \/ result.next_action = "webview_extract"

should_retry_ingestion(job, result) ==
    /\ ~is_encoding_error(result)
    /\ result.next_action = None
    /\ job.attempts < max_retries
    /\ result.error_code \in RetryableCodes

should_retry(handler, job, result) ==
    IF handler = "ingestion" THEN should_retry_ingestion(job, result)
    ELSE should_retry_url(job, result)

\* the object a handler holds once it has decided what to write for a result
\* (queue_worker._process_url_job, _process_ingestion_job; process_one)
outcome(handler, job, result, t) ==
    IF result.raised THEN mark_error(job, "worker_error", t)
    ELSE IF result.success THEN mark_complete(job, result, t)
    ELSE IF should_retry(handler, job, result)
    THEN [job EXCEPT !.status = PENDING, !.error_code = result.error_code]
    ELSE IF handler = "ingestion" /\ result.next_action # None
    THEN mark_complete(job, result, t)
    ELSE mark_error(job, IF result.error_code # None THEN result.error_code
                         ELSE "parse_failed", t)

\* the second write of the ingestion handler when the result has a
\* next_action: status, error_code and error_message are set with no guard
override_error(job, result) ==
    [job EXCEPT !.status = ERROR,
                !.error_code = IF result.error_code # None
                               THEN result.error_code ELSE "parse_failed"]

\* ------------------------------------------------------------ processes

IdleWorker ==
    [pc |-> "idle", kind |-> None, job |-> None, handler |-> None,
     snap |-> NoSnap, res |-> NoResult]

IdleClient ==
    [pc |-> "idle", job |-> None, snap |-> NoSnap]

\* no extraction attempt yet; clean: every attempt so far failed with a
\* retryable code
NoHist == [code |-> None, clean |-> TRUE]

NoCall == [fn |-> None, job |-> None, before |-> NoJob, resp |-> None]

\* no parser or scorer call is in progress
NoInput == [fn |-> None]

\* no image job, no recipe_ingestions row
NoIngestions == <<>>

Init ==
    /\ jobs = [j \in JobIds |-> NoJob]
    /\ queue = {}
    /\ produced = 0
    /\ now = 1
    /\ wk = [w \in Workers |-> IdleWorker]
    /\ cl = [c \in Clients |-> IdleClient]
    /\ hist = [j \in JobIds |-> NoHist]
    /\ last = NoCall
    /\ stage = {}
    /\ ingestions = NoIngestions
    /\ call = NoInput

\* time passes
Tick ==
    /\ now < MaxTime
    /\ now' = now + 1
    /\ UNCHANGED <<jobs, queue, produced, wk, cl, hist, last, call, stage, ingestions>>

\* a route creates a job (parse_job_service.create_job and its wrappers)
Submit(j, job_type, use_llm_fallback) ==
    /\ jobs[j].status = ABSENT
    /\ jobs' = [jobs EXCEPT ![j] = create_job(job_type, use_llm_fallback, "data")]
    /\ UNCHANGED <<queue, produced, now, wk, cl, hist, last, call, stage, ingestions>>

\* a producer puts a message for a job on the recipes queue; the queue
\* delivers at least once, so a message may be put again once taken
Produce(j, env) ==
    /\ jobs[j].status # ABSENT
    /\ produced < MaxProduce
    /\ env \in ProducerMessages(j, jobs[j])
    /\ env \notin queue
    /\ queue' = queue \cup {env}
    /\ produced' = produced + 1
    /\ UNCHANGED <<jobs, now, wk, cl, hist, last, call, stage, ingestions>>

\* queue_worker.process_job up to mark_running: take a message, load the
\* job, return if it is missing or CANCELED
QW_Receive(w, env) ==
    /\ w \in QueueWorkers
    /\ wk[w].pc = "idle"
    /\ env \in queue
    /\ queue' = queue \ {env}
    /\ LET j == lookup_id(env)
           row == jobs[j]
       IN wk' = [wk EXCEPT ![w] =
                    IF row.status = ABSENT \/ row.status = CANCELED
                    THEN IdleWorker
                    ELSE [pc |-> "mark_running", kind |-> "queue", job |-> j,
                          handler |-> route(env), snap |-> Loaded(row),
                          res |-> IF route(env) = "ocr_completed"
                                  THEN env.payload ELSE NoResult]]
    /\ UNCHANGED <<jobs, produced, now, cl, hist, last, call, stage, ingestions>>

\* run_parse_worker.process_one up to mark_running: fetch the next PENDING job
PW_Fetch(w, j) ==
    /\ w \in PollWorkers
    /\ wk[w].pc = "idle"
    /\ j \in process_one_pick(jobs)
    /\ wk' = [wk EXCEPT ![w] =
                 [pc |-> "mark_running", kind |-> "poll", job |-> j,
                  handler |-> jobs[j].job_type, snap |-> Loaded(jobs[j]),
                  res |-> NoResult]]
    /\ UNCHANGED <<jobs, queue, produced, now, cl, hist, last, call, stage, ingestions>>

\* the table after a process commits obj, the object it made of its view
Write(j, snap, obj) ==
    IF obj = View(jobs[j], snap) THEN jobs
    ELSE [jobs EXCEPT ![j] = Persist(jobs[j], View(jobs[j], snap), obj)]

\* parse_job_service.mark_running as the workers call it: the commit
W_MarkRunning(w) ==
    /\ wk[w].pc = "mark_running"
    /\ LET j == wk[w].job
           view == View(jobs[j], wk[w].snap)
           obj == mark_running(view, now)
       IN /\ jobs' = Write(j, wk[w].snap, obj)
          /\ wk' = [wk EXCEPT ![w].pc = IF obj = view THEN "handler"
                                        ELSE "refresh",
                              ![w].snap = Loaded(obj)]
    /\ UNCHANGED <<queue, produced, now, cl, hist, last, call, stage, ingestions>>

\* db.refresh(job) at the end of mark_running and of mark_complete
W_Refresh(w) ==
    /\ wk[w].pc \in {"refresh", "refresh_override"}
    /\ wk' = [wk EXCEPT ![w].pc = IF wk[w].pc = "refresh" THEN "handler"
                                  ELSE "override",
                        ![w].snap = Loaded(jobs[wk[w].job])]
    /\ UNCHANGED <<jobs, queue, produced, now, cl, hist, last, call, stage, ingestions>>

\* queue_worker.process_job: a job type with no handler is marked as an error
W_Reject(w) ==
    /\ wk[w].pc = "handler"
    /\ wk[w].handler \in {"manual", "unknown"}
    /\ LET j == wk[w].job
           code == IF wk[w].handler = "manual" THEN "not_implemented"
                   ELSE "unknown_job_type"
           obj == mark_error(View(jobs[j], wk[w].snap), code, now)
       IN /\ jobs' = Write(j, wk[w].snap, obj)
          /\ wk' = [wk EXCEPT ![w] = IdleWorker]
    /\ UNCHANGED <<queue, produced, now, cl, hist, last, call, stage, ingestions>>

\* the results the parser of a handler can return for a job
ParseResults(handler, row) ==
    IF handler = "url" THEN parse_recipe_from_url(row.use_llm_fallback)
    ELSE parse_recipe_ingestion

\* the record of a job's attempts after one more ended with result r
Attempted(h, r) ==
    [code |-> IF r.raised THEN "worker_error" ELSE r.error_code,
     clean |-> h.clean /\ ~r.raised /\ ~r.success
               /\ r.error_code \in RetryableCodes]

\* _process_url_job, _process_ingestion_job and the same code in process_one:
\* the parser returns (or raises) and the handler writes what it decides:
\* complete, retry or error
W_Outcome(w, r) ==
    /\ wk[w].pc = "handler"
    /\ wk[w].handler \in {"url", "ingestion"}
    /\ r \in ParseResults(wk[w].handler, jobs[wk[w].job])
    /\ LET j == wk[w].job
           h == wk[w].handler
           snap == wk[w].snap
           view == View(jobs[j], snap)
           obj == outcome(h, view, r, now)
           retry == ~r.raised /\ ~r.success /\ should_retry(h, view, r)
           twice == /\ ~r.raised /\ ~r.success /\ ~retry
                    /\ h = "ingestion" /\ r.next_action # None
       IN /\ jobs' = Write(j, snap, obj)
          /\ queue' = IF retry /\ wk[w].kind = "queue"
                      THEN enqueue_job(queue, view.job_type, j, view.job_data)
                      ELSE queue
          /\ wk' = [wk EXCEPT ![w] =
                       IF twice
                       THEN [wk[w] EXCEPT !.pc = IF obj = view THEN "override"
                                                 ELSE "refresh_override",
                                          !.res = r, !.snap = Loaded(obj)]
                       ELSE IdleWorker]
          /\ hist' = [hist EXCEPT ![j] = Attempted(hist[j], r)]
    /\ UNCHANGED <<produced, now, cl, last, call, stage, ingestions>>

\* the ingestion handler's second commit on a result with a next_action
W_Override(w) ==
    /\ wk[w].pc = "override"
    /\ LET j == wk[w].job
           obj == override_error(View(jobs[j], wk[w].snap), wk[w].res)
       IN jobs' = Write(j, wk[w].snap, obj)
    /\ wk' = [wk EXCEPT ![w] = IdleWorker]
    /\ UNCHANGED <<queue, produced, now, cl, hist, last, call, stage, ingestions>>

\* routes/recipes.py cancel_parse_job: get_job_for_user
Cancel_Read(c, j) ==
    /\ cl[c].pc = "idle"
    /\ cl' = [cl EXCEPT ![c] =
                 IF jobs[j].status = ABSENT
                 THEN IdleClient
                 ELSE [pc |-> "cancel", job |-> j, snap |-> Loaded(jobs[j])]]
    /\ UNCHANGED <<jobs, queue, produced, now, wk, hist, last, call, stage, ingestions>>

\* routes/recipes.py cancel_parse_job after the read:
\* <<the response, the object to commit>>
\* a cancel route that accepts a job in any status
cancel_any_status(job, t) ==
    <<"ok", [job EXCEPT !.status = CANCELED, !.canceled_at = t]>>

cancel_parse_job(job, t) ==
    IF job.status = COMPLETE
    THEN <<"ok", mark_canceled(job, t)[2]>>
    ELSE IF job.status \in {ERROR, COMMITTED, ABANDONED, CANCELED}
    THEN <<"409", job>>
    ELSE IF mark_canceled(job, t)[1]
    THEN <<"ok", mark_canceled(job, t)[2]>>
    ELSE <<"409", job>>

Cancel_Write(c) ==
    /\ cl[c].pc = "cancel"
    /\ LET j == cl[c].job
           out == cancel_parse_job(View(jobs[j], cl[c].snap), now)
       IN /\ jobs' = Write(j, cl[c].snap, out[2])
          /\ cl' = [cl EXCEPT ![c] = IdleClient]
    /\ UNCHANGED <<queue, produced, now, wk, hist, last, call, stage, ingestions>>

\* routes/recipes.py create_recipe with a parse_job_id: the readiness check
Commit_Check(c, j) ==
    /\ cl[c].pc = "idle"
    /\ cl' = [cl EXCEPT ![c] =
                 IF jobs[j].status = ABSENT
                 THEN IdleClient
                 ELSE IF jobs[j].status # COMPLETE
                 THEN IdleClient
                 ELSE [pc |-> "create", job |-> j, snap |-> Loaded(jobs[j])]]
    /\ UNCHANGED <<jobs, queue, produced, now, wk, hist, last, call, stage, ingestions>>

\* recipes_service.create_recipe commits the recipe, which expires the job
\* object; mark_committed's read of job.status loads the row again
Commit_Reload(c) ==
    /\ cl[c].pc = "create"
    /\ cl' = [cl EXCEPT ![c].pc = "commit",
                        ![c].snap = Loaded(jobs[cl[c].job])]
    /\ UNCHANGED <<jobs, queue, produced, now, wk, hist, last, call, stage, ingestions>>

\* parse_job_service.mark_committed as create_recipe calls it
Commit_Write(c) ==
    /\ cl[c].pc = "commit"
    /\ LET j == cl[c].job
           obj == mark_committed(View(jobs[j], cl[c].snap), now)
       IN jobs' = Write(j, cl[c].snap, obj)
    /\ cl' = [cl EXCEPT ![c] = IdleClient]
    /\ UNCHANGED <<queue, produced, now, wk, hist, last, call, stage, ingestions>>

\* the system of the queue worker: producers, rq workers, HTTP requests; the
\* interleavings of their statements, at one reading of the clock
Next ==
    \/ \E j \in JobIds, t \in {"url", "ingestion"}, f \in BOOLEAN :
          /\ (t = "ingestion" => ~f)
          /\ Submit(j, t, f)
    \/ \E j \in JobIds : \E env \in ProducerMessages(j, jobs[j]) : Produce(j, env)
    \/ \E w \in QueueWorkers : \E env \in queue : QW_Receive(w, env)
    \/ \E w \in QueueWorkers : W_MarkRunning(w)
    \/ \E w \in QueueWorkers : W_Refresh(w)
    \/ \E w \in QueueWorkers : W_Reject(w)
    \/ \E w \in QueueWorkers :
          \E r \in parse_recipe_from_url(TRUE) \cup parse_recipe_ingestion :
             W_Outcome(w, r)
    \/ \E w \in QueueWorkers : W_Override(w)
    \/ \E c \in Clients, j \in JobIds : Cancel_Read(c, j)
    \/ \E c \in Clients : Cancel_Write(c)
    \/ \E c \in Clients, j \in JobIds : Commit_Check(c, j)
    \/ \E c \in Clients : Commit_Reload(c)
    \/ \E c \in Clients : Commit_Write(c)

Spec == Init /\ [][Next]_vars

\* run_parse_worker.main and run_cleanup: the abandon sweep
AbandonSweep ==
    /\ jobs' = abandon_stale_jobs(jobs, abandon_ticks, now)
    /\ jobs' # jobs
    /\ UNCHANGED <<queue, produced, now, wk, cl, hist, last, call, stage, ingestions>>

\* the system of the polling worker: run_parse_worker.main (process_one and
\* the sweep) and HTTP requests
NextPoll ==
    \/ Tick
    \/ \E j \in JobIds, t \in {"url", "ingestion"}, f \in BOOLEAN :
          /\ (t = "ingestion" => ~f)
          /\ Submit(j, t, f)
    \/ \E w \in PollWorkers, j \in JobIds : PW_Fetch(w, j)
    \/ \E w \in PollWorkers : W_MarkRunning(w)
    \/ \E w \in PollWorkers : W_Refresh(w)
    \/ \E w \in PollWorkers :
          \E r \in parse_recipe_from_url(TRUE) \cup parse_recipe_ingestion :
             W_Outcome(w, r)
    \/ \E w \in PollWorkers : W_Override(w)
    \/ \E c \in Clients, j \in JobIds : Cancel_Read(c, j)
    \/ \E c \in Clients : Cancel_Write(c)
    \/ \E c \in Clients, j \in JobIds : Commit_Check(c, j)
    \/ \E c \in Clients : Commit_Reload(c)
    \/ \E c \in Clients : Commit_Write(c)
    \/ AbandonSweep

SpecPoll == Init /\ [][NextPoll]_vars

\* ------------------------------------------------ the state machine alone
\* The transitions of parse_job_service called one after the other on a job
\* loaded in the caller's session, as the tests call them: the object is the
\* row.  last keeps the call and the row it was made on.

Called(fn, j, resp) ==
    [fn |-> fn, job |-> j, before |-> jobs[j], resp |-> resp]

SM_Create(j, job_type, use_llm_fallback) ==
    /\ jobs[j].status = ABSENT
    /\ jobs' = [jobs EXCEPT ![j] = create_job(job_type, use_llm_fallback, "data")]
    /\ last' = Called("create_job", j, None)
    /\ UNCHANGED <<queue, produced, now, wk, cl, hist, call, stage, ingestions>>

SM_MarkRunning(j) ==
    /\ jobs[j].status # ABSENT
    /\ jobs[j].attempts < max_retries + 1
    /\ jobs' = [jobs EXCEPT ![j] = mark_running(jobs[j], now)]
    /\ last' = Called("mark_running", j, None)
    /\ UNCHANGED <<queue, produced, now, wk, cl, hist, call, stage, ingestions>>

SM_MarkComplete(j, r) ==
    /\ jobs[j].status # ABSENT
    /\ r \in ParseResults(jobs[j].job_type, jobs[j])
    /\ r.success
    /\ jobs' = [jobs EXCEPT ![j] = mark_complete(jobs[j], r, now)]
    /\ last' = Called("mark_complete", j, None)
    /\ UNCHANGED <<queue, produced, now, wk, cl, hist, call, stage, ingestions>>

SM_MarkError(j, r) ==
    /\ jobs[j].status # ABSENT
    /\ r \in ParseResults(jobs[j].job_type, jobs[j])
    /\ ~r.success /\ ~r.raised
    /\ jobs' = [jobs EXCEPT ![j] = mark_error(jobs[j], r.error_code, now)]
    /\ last' = Called("mark_error", j, None)
    /\ UNCHANGED <<queue, produced, now, wk, cl, hist, call, stage, ingestions>>

SM_MarkCommitted(j) ==
    /\ jobs[j].status # ABSENT
    /\ jobs' = [jobs EXCEPT ![j] = mark_committed(jobs[j], now)]
    /\ last' = Called("mark_committed", j, None)
    /\ UNCHANGED <<queue, produced, now, wk, cl, hist, call, stage, ingestions>>

\* the cancel route on a job it finds
SM_Cancel(j) ==
    /\ jobs[j].status # ABSENT
    /\ LET out == cancel_parse_job(jobs[j], now)
       IN /\ jobs' = [jobs EXCEPT ![j] = out[2]]
          /\ last' = Called("cancel_parse_job", j, out[1])
    /\ UNCHANGED <<queue, produced, now, wk, cl, hist, call, stage, ingestions>>

SM_Abandon ==
    /\ jobs' = abandon_stale_jobs(jobs, abandon_ticks, now)
    /\ jobs' # jobs
    /\ last' = NoCall
    /\ UNCHANGED <<queue, produced, now, wk, cl, hist, call, stage, ingestions>>

NextSM ==
    \/ Tick
    \/ \E j \in JobIds, t \in {"url", "ingestion"}, f \in BOOLEAN :
          /\ (t = "ingestion" => ~f)
          /\ SM_Create(j, t, f)
    \/ \E j \in JobIds : SM_MarkRunning(j)
    \/ \E j \in JobIds :
          \E r \in parse_recipe_from_url(TRUE) \cup parse_recipe_ingestion :
             SM_MarkComplete(j, r)
    \/ \E j \in JobIds :
          \E r \in parse_recipe_from_url(TRUE) \cup parse_recipe_ingestion :
             SM_MarkError(j, r)
    \/ \E j \in JobIds : SM_MarkCommitted(j)
    \/ \E j \in JobIds : SM_Cancel(j)
    \/ SM_Abandon

SpecSM == Init /\ [][NextSM]_vars

\* ------------------------------------------------- the sweep over a table
\* The state machine alone on a table of two jobs, so that a sweep meets jobs
\* of different status and age at once.

SweepJobIds == {"j1", "j2"}

InitSweep ==
    /\ jobs = [j \in SweepJobIds |-> NoJob]
    /\ queue = {}
    /\ produced = 0
    /\ now = 1
    /\ wk = [w \in Workers |-> IdleWorker]
    /\ cl = [c \in Clients |-> IdleClient]
    /\ hist = [j \in JobIds |-> NoHist]
    /\ last = NoCall
    /\ stage = {}
    /\ ingestions = NoIngestions
    /\ call = NoInput

\* a caller's transition on a job of the table: the first pickup of a PENDING
\* job, a result, an error, a commit, a cancel request
Transition(j, obj) ==
    /\ jobs[j].status # ABSENT
    /\ obj # jobs[j]
    /\ jobs' = [jobs EXCEPT ![j] = obj]
    /\ UNCHANGED <<queue, produced, now, wk, cl, hist, last, call, stage, ingestions>>

Transitions(job, t) ==
    {mark_complete(job, Result(TRUE, None, {}, None), t),
     mark_error(job, "parse_failed", t),
     mark_committed(job, t),
     cancel_parse_job(job, t)[2]}
    \cup (IF job.status = PENDING THEN {mark_running(job, t)} ELSE {})

\* run_parse_worker.main: the cleanup block calls abandon_stale_jobs, whether
\* or not a job is stale (cleanup_expired_stage_recipes, which follows, looks
\* at meal_plan_generate jobs only; this table holds url jobs)
Sweep ==
    /\ jobs' = abandon_stale_jobs(jobs, abandon_ticks, now)
    /\ last' = [NoCall EXCEPT !.fn = "abandon_stale_jobs"]
    /\ UNCHANGED <<queue, produced, now, wk, cl, hist, call, stage, ingestions>>

NextSweep ==
    \/ Tick
    \/ \E j \in SweepJobIds : Submit(j, "url", FALSE)
    \/ \E j \in SweepJobIds : \E obj \in Transitions(jobs[j], now) :
          Transition(j, obj)
    \/ Sweep

SpecSweep == InitSweep /\ [][NextSweep]_vars

\* ------------------------------------------- the OCR completion pipeline
\* Image jobs go to the OCR service, which answers on the recipes queue with
\* an ocr.completed envelope: job_id minted by the OCR service, workflow_id
\* the id of the job that asked.

\* the image jobs, and the ids the OCR service mints (no row has them)
OcrJobIds == {"j1", "j2"}
MintedIds == {"o1"}
OcrTable == OcrJobIds \cup MintedIds

\* The payloads of ocr.completed envelopes.  One entry of payload.results
\* has the index of its image, an error_code (None is a success) and the
\* ocr_text: "good" is text that passes the quality gate and structures
\* into a valid draft, "" is no text.  A batch has one entry per image, for
\* no image, one or two
OcrPayloads ==
    LET ImageResult(index, error_code, ocr_text) ==
            [index |-> index, error_code |-> error_code,
             ocr_text |-> ocr_text]
        ImageResults(i) ==
            {ImageResult(i, None, "good"), ImageResult(i, None, ""),
             ImageResult(i, IF i = 0 THEN "image_unreadable"
                            ELSE "image_too_large", "")}
        ResultBatches ==
            {{}} \cup {{r} : r \in ImageResults(0)}
                 \cup {{r0, r1} : r0 \in ImageResults(0),
                                  r1 \in ImageResults(1)}
        OcrPayload(status, error_code, results) ==
            [status |-> status, error_code |-> error_code,
             results |-> results]
    IN {OcrPayload("success", None, b) : b \in ResultBatches}
       \cup {OcrPayload("failed", None, {}),
             OcrPayload("failed", "ocr_provider_error", {}),
             OcrPayload("success", "ocr_provider_error",
                        {ImageResult(0, None, "good")})}

\* queue_service.enqueue_ocr_completion
enqueue_ocr_completion(q, workflow_id, job_id, payload) ==
    q \cup {create_envelope("ocr.completed", job_id, workflow_id, payload)}

\* _process_ocr_completed: the entries with no error, and those with one
successful_results(payload) ==
    {r \in payload.results : r.error_code = None}

failed_results(payload) ==
    {r \in payload.results : r.error_code # None}

\* _process_ocr_completed up to the first cancellation check: the error the
\* handler marks the job with, or None when it goes on
ocr_rejection(payload) ==
    IF payload.status # "success" \/ payload.error_code # None
    THEN IF payload.error_code # None THEN payload.error_code
         ELSE "ocr_failed"
    ELSE IF payload.results = {} THEN "ocr_no_results"
    ELSE IF successful_results(payload) = {}
    THEN LET rs == failed_results(payload)
             \* sorted(results, key=index)[0]
             first == CHOOSE r \in rs : \A q \in rs : r.index <= q.index
         IN first.error_code
    ELSE None

InitOcr ==
    /\ jobs = [j \in OcrTable |-> NoJob]
    /\ queue = {}
    /\ produced = 0
    /\ now = 1
    /\ wk = [w \in Workers |-> IdleWorker]
    /\ cl = [c \in Clients |-> IdleClient]
    /\ hist = [j \in JobIds |-> NoHist]
    /\ last = NoCall
    /\ stage = {}
    /\ ingestions = [j \in OcrJobIds |-> "NONE"]
    /\ call = NoInput

\* routes/from_image.py submit_recipe_from_image_job: the RecipeIngestion row
\* is added with status PENDING, then create_image_job (the OCR request goes
\* to the OCR service's queue)
SubmitImage(j) ==
    /\ jobs[j].status = ABSENT
    /\ ingestions' = [ingestions EXCEPT ![j] = "PENDING"]
    /\ jobs' = [jobs EXCEPT ![j] = create_job("image", FALSE, "data")]
    /\ UNCHANGED <<queue, produced, now, wk, cl, hist, last, call, stage>>

\* the OCR service answers a request: enqueue_ocr_completion with the id it
\* minted and the workflow_id of the request
OcrCompletes(j, minted, payload) ==
    /\ jobs[j].status # ABSENT
    /\ produced < MaxProduce
    /\ queue' = enqueue_ocr_completion(queue, j, minted, payload)
    /\ queue' # queue
    /\ produced' = produced + 1
    /\ UNCHANGED <<jobs, now, wk, cl, hist, last, call, stage, ingestions>>

\* a producer sends a recipe.create.manual.requested envelope for a job, as
\* part of a workflow that may be another job's
ManualRequested(j, workflow_id) ==
    /\ jobs[j].status # ABSENT
    /\ produced < MaxProduce
    /\ queue' = queue \cup {create_envelope("recipe.create.manual.requested",
                                            j, workflow_id, "data")}
    /\ queue' # queue
    /\ produced' = produced + 1
    /\ UNCHANGED <<jobs, now, wk, cl, hist, last, call, stage, ingestions>>

\* _process_ocr_completed up to the first cancellation check: a payload that
\* is rejected is marked as an error; otherwise db.refresh(job)
W_OcrCompleted(w) ==
    /\ wk[w].pc = "handler"
    /\ wk[w].handler = "ocr_completed"
    /\ LET j == wk[w].job
           code == ocr_rejection(wk[w].res)
           obj == mark_error(View(jobs[j], wk[w].snap), code, now)
       IN IF code # None
          THEN /\ jobs' = Write(j, wk[w].snap, obj)
               /\ wk' = [wk EXCEPT ![w] = IdleWorker]
          ELSE /\ jobs' = jobs
               /\ wk' = [wk EXCEPT ![w].pc = "is_canceled",
                                   ![w].snap = Loaded(jobs[j])]
    /\ UNCHANGED <<queue, produced, now, cl, hist, last, call, stage, ingestions>>

\* _process_ocr_completed at parse_job_service.is_canceled(job): the module
\* defines no is_canceled, the call raises AttributeError, and the handler's
\* except clause marks the job with ocr_completion_error.  The rest of the
\* handler (ingestion.status = "RUNNING", quality gate, text structuring,
\* draft, the writes of ingestion.status) is never reached.  last keeps the
\* status the check was made on.
W_OcrIsCanceled(w) ==
    /\ wk[w].pc = "is_canceled"
    /\ LET j == wk[w].job
           obj == mark_error(View(jobs[j], wk[w].snap),
                             "ocr_completion_error", now)
       IN jobs' = Write(j, wk[w].snap, obj)
    /\ last' = [NoCall EXCEPT !.fn = "is_canceled", !.job = wk[w].job,
                              !.resp = wk[w].snap.status]
    /\ wk' = [wk EXCEPT ![w] = IdleWorker]
    /\ UNCHANGED <<queue, produced, now, cl, hist, call, stage, ingestions>>

\* the system of the OCR completion pipeline: image submissions, the OCR
\* service, the queue worker
NextOcr ==
    \/ \E j \in OcrJobIds : SubmitImage(j)
    \/ \E j \in OcrJobIds, m \in MintedIds, p \in OcrPayloads :
          OcrCompletes(j, m, p)
    \/ \E j \in OcrJobIds, f \in OcrJobIds : ManualRequested(j, f)
    \/ \E w \in QueueWorkers, env \in queue : QW_Receive(w, env)
    \/ \E w \in QueueWorkers : W_MarkRunning(w)
    \/ \E w \in QueueWorkers : W_Refresh(w)
    \/ \E w \in QueueWorkers : W_Reject(w)
    \/ \E w \in QueueWorkers : W_OcrCompleted(w)
    \/ \E w \in QueueWorkers : W_OcrIsCanceled(w)

SpecOcr == InitOcr /\ [][NextOcr]_vars

\* one image job, its OCR completion and a client that cancels the job while
\* the worker handles the completion
NextOcrCancel ==
    \/ SubmitImage("j1")
    \/ \E m \in MintedIds, p \in OcrPayloads : OcrCompletes("j1", m, p)
    \/ \E w \in QueueWorkers, env \in queue : QW_Receive(w, env)
    \/ \E w \in QueueWorkers : W_MarkRunning(w)
    \/ \E w \in QueueWorkers : W_Refresh(w)
    \/ \E w \in QueueWorkers : W_OcrCompleted(w)
    \/ \E w \in QueueWorkers : W_OcrIsCanceled(w)
    \/ \E c \in Clients : Cancel_Read(c, "j1")
    \/ \E c \in Clients : Cancel_Write(c)

SpecOcrCancel == InitOcr /\ [][NextOcrCancel]_vars

\* ------------------------------------------ the URL extraction orchestrator

\* Optional[ParsedRecipe]: no recipe, or one
NoRecipe == <<>>

\* url_recipe_parser.ParsedRecipe, the three fields an extractor must find,
\* with what it can read off a page before it decides to keep it: a title or
\* none, a list of ParsedIngredient or none, a list of steps or none
Candidates ==
    [title : {"", "Schema Dish"},
     ingredients : {<<>>,
                    <<[text |-> "1 egg", quantity_display |-> None]>>,
                    <<[text |-> "egg", quantity_display |-> "1"]>>},
     steps : {<<>>, <<"Boil egg">>}]

NoCandidate == [title |-> "", ingredients |-> <<>>, steps |-> <<>>]

\* how fetch_html ends: with the page, with a ValueError (invalid URL, or
\* corrupted encoding), with an HTTP status error (after the retries on 401
\* and 403 the status is that of the last response), with another httpx error
FetchOutcomes ==
    {[kind |-> k, status_code |-> 0] :
        k \in {"html", "invalid_url", "encoding", "http_error"}}
    \cup {[kind |-> "http_status", status_code |-> c] : c \in {401, 403, 500}}

\* what the text-generation service does with the request of
\* extract_recipe_via_llm
LlmOutcomes ==
    {[kind |-> k, json |-> NoCandidate] :
        k \in {"corrupted", "timeout", "transport", "body_not_json",
               "error_object", "no_content", "invalid_json", "sentinel"}}
    \cup {[kind |-> "json", json |-> c] : c \in Candidates}

\* a URL as the orchestrator sees it: the outcome of the fetch and, for a
\* fetched page, what each extractor finds in it
Documents ==
    [fetch : {o \in FetchOutcomes : o.kind # "html"},
     schema : {NoCandidate}, heuristic : {NoCandidate},
     llm : {[kind |-> "timeout", json |-> NoCandidate]}]
    \cup [fetch : {o \in FetchOutcomes : o.kind = "html"},
          schema : Candidates, heuristic : Candidates, llm : LlmOutcomes]

\* url_recipe_parser.ParseResult; raised is an exception leaving
\* parse_recipe_from_url instead of a result
ParseResult(success, recipe, used_llm, strategy, warnings, code, action) ==
    [success |-> success, recipe |-> recipe, used_llm |-> used_llm,
     parser_strategy |-> strategy, warnings |-> warnings,
     error_code |-> code, next_action |-> action, raised |-> FALSE]

NoParseResult == ParseResult(FALSE, NoRecipe, FALSE, None, {}, None, None)

RaisedResult == [NoParseResult EXCEPT !.raised = TRUE]

\* _clean_parsed_ingredients: one ingredient out for each one in; a quantity
\* at the head of the text moves to quantity_display unless one is there
clean_parsed_ingredients(items) ==
    [i \in DOMAIN items |->
        IF items[i].text = "1 egg"
        THEN [text |-> "egg",
              quantity_display |-> IF items[i].quantity_display = None
                                   THEN "1" ELSE items[i].quantity_display]
        ELSE items[i]]

\* the recipe of a successful result, its ingredients cleaned
Cleaned(parsed) ==
    <<[parsed[1] EXCEPT
          !.ingredients = clean_parsed_ingredients(parsed[1].ingredients)]>>

\* a candidate with a title, ingredients and steps
Complete(c) == c.title # "" /\ c.ingredients # <<>> /\ c.steps # <<>>

\* extract_recipe_from_schema_org: the first Recipe candidate that has a
\* title, ingredients and steps
extract_recipe_from_schema_org(doc) ==
    IF Complete(doc.schema) THEN <<doc.schema>> ELSE NoRecipe

\* extract_recipe_from_microdata: a placeholder
extract_recipe_from_microdata(doc) == NoRecipe

\* extract_recipe_heuristic
extract_recipe_heuristic(doc) ==
    IF Complete(doc.heuristic) THEN <<doc.heuristic>> ELSE NoRecipe

\* extract_recipe_via_llm: the recipe built from the model's JSON, whatever
\* it holds, or the exception the call ends with (corrupted: its message
\* says the content is corrupted)
extract_recipe_via_llm(doc) ==
    LET kind == doc.llm.kind
        Thrown(exc) ==
            [recipe |-> NoRecipe, exc |-> exc, corrupted |-> kind = "corrupted"]
    IN IF kind = "corrupted" THEN Thrown("ValueError")
       ELSE IF kind = "timeout" THEN Thrown("TimeoutException")
       ELSE IF kind = "transport" THEN Thrown("HTTPError")
       ELSE IF kind = "body_not_json" THEN Thrown("JSONDecodeError")
       ELSE IF kind \in {"error_object", "no_content", "invalid_json"}
       THEN Thrown("ValueError")
       ELSE IF kind = "sentinel" THEN Thrown("ValidationError")
       ELSE [recipe |-> <<doc.llm.json>>, exc |-> None, corrupted |-> FALSE]

\* parse_recipe_from_url, the handlers around fetch_html
fetch_failure(fetch) ==
    IF fetch.kind = "encoding"
    THEN ParseResult(FALSE, NoRecipe, FALSE, None, {"encoding_error"},
                     "fetch_failed", "webview_extract")
    ELSE IF fetch.kind = "invalid_url"
    THEN ParseResult(FALSE, NoRecipe, FALSE, None, {}, "invalid_url", None)
    ELSE IF fetch.kind = "http_status"
    THEN ParseResult(FALSE, NoRecipe, FALSE, None,
                     {IF fetch.status_code = 403 THEN "blocked_by_site"
                      ELSE "fetch_http_error"},
                     "fetch_failed", None)
    ELSE ParseResult(FALSE, NoRecipe, FALSE, None, {"fetch_http_error"},
                     "fetch_failed", None)

\* ingestion_service.parse_recipe, the handlers around fetch_html
ingestion_fetch_failure(fetch) ==
    IF fetch.kind = "http_status"
    THEN LET warnings == IF fetch.status_code \in {401, 403}
                         THEN {"blocked_by_site"}
                         ELSE {"fetch_http_error"}
         IN ParseResult(FALSE, NoRecipe, FALSE, None, warnings,
                        "fetch_failed",
                        IF "blocked_by_site" \in warnings
                        THEN "webview_extract" ELSE None)
    ELSE fetch_failure(fetch)

\* an order that tries the heuristic extractor before structured data
heuristic_first == <<"heuristic", "microdata", "schema_org_json_ld">>

\* parse_recipe_from_url: the extractors that need no model, in the order
\* they are tried
strategies == <<"schema_org_json_ld", "microdata", "heuristic">>

\* the extractor behind a strategy name
extract(strategy, doc) ==
    IF strategy = "schema_org_json_ld" THEN extract_recipe_from_schema_org(doc)
    ELSE IF strategy = "microdata" THEN extract_recipe_from_microdata(doc)
    ELSE extract_recipe_heuristic(doc)

\* parse_recipe_from_url, the handlers around extract_recipe_via_llm; the
\* first one catches ValueError, from which json.JSONDecodeError and
\* pydantic's ValidationError derive
llm_result(r) ==
    IF r.exc = None
    THEN ParseResult(TRUE, Cleaned(r.recipe), TRUE, "llm_fallback",
                     {"LLM fallback used; please verify ingredients."},
                     None, None)
    ELSE IF r.exc \in {"ValueError", "JSONDecodeError", "ValidationError"}
    THEN IF r.corrupted
         THEN ParseResult(FALSE, NoRecipe, FALSE, None, {"encoding_error"},
                          "fetch_failed", "webview_extract")
         ELSE RaisedResult
    ELSE IF r.exc = "TimeoutException"
    THEN ParseResult(FALSE, NoRecipe, TRUE, "llm_fallback", {},
                     "llm_timeout", None)
    ELSE ParseResult(FALSE, NoRecipe, TRUE, "llm_fallback", {},
                     "llm_failed", None)

\* a call of parse_recipe_from_url(url, use_llm_fallback), or of the
\* ingestion parse_recipe on a server_fetch input, about to fetch
ParseStart(fn, doc, use_llm_fallback) ==
    [fn |-> fn, doc |-> doc, use_llm_fallback |-> use_llm_fallback,
     pc |-> "fetch_html", ran |-> <<>>, res |-> NoParseResult]

InitParse ==
    /\ jobs = [j \in JobIds |-> NoJob]
    /\ queue = {}
    /\ produced = 0
    /\ now = 1
    /\ wk = [w \in Workers |-> IdleWorker]
    /\ cl = [c \in Clients |-> IdleClient]
    /\ hist = [j \in JobIds |-> NoHist]
    /\ last = NoCall
    /\ stage = {}
    /\ ingestions = NoIngestions
    /\ call \in {ParseStart("parse_recipe_from_url", d, u) :
                    d \in Documents, u \in BOOLEAN}
               \* create_ingestion_job stores use_llm_fallback = False
               \cup {ParseStart("parse_recipe", d, FALSE) : d \in Documents}

\* the call returns res (or raises)
Return(res) == [call EXCEPT !.pc = "done", !.res = res]

\* html = await fetch_html(url) and its exception handlers
P_Fetch ==
    /\ call.fn = "parse_recipe_from_url"
    /\ call.pc = "fetch_html"
    /\ call' = IF call.doc.fetch.kind = "html"
               THEN [call EXCEPT !.pc = strategies[1]]
               ELSE Return(fetch_failure(call.doc.fetch))
    /\ UNCHANGED <<jobs, queue, produced, now, wk, cl, hist, last, stage,
                 ingestions>>

\* one extractor is tried; its recipe, if any, is the result, else the next
\* one is due, the model-assisted one only when the caller asked for it
P_Extract ==
    /\ call.fn = "parse_recipe_from_url"
    /\ \E i \in DOMAIN strategies :
        /\ call.pc = strategies[i]
        /\ LET parsed == extract(strategies[i], call.doc)
               tried == [call EXCEPT !.ran = Append(@, strategies[i])]
           IN call' =
                IF parsed # NoRecipe
                THEN [tried EXCEPT
                        !.pc = "done",
                        !.res = ParseResult(TRUE, Cleaned(parsed), FALSE,
                                            strategies[i], {}, None, None)]
                ELSE IF i < Len(strategies)
                THEN [tried EXCEPT !.pc = strategies[i + 1]]
                ELSE IF call.use_llm_fallback
                THEN [tried EXCEPT !.pc = "llm_fallback"]
                ELSE [tried EXCEPT
                        !.pc = "done",
                        !.res = ParseResult(FALSE, NoRecipe, FALSE, None, {},
                                            "parse_failed", None)]
    /\ UNCHANGED <<jobs, queue, produced, now, wk, cl, hist, last, stage,
                 ingestions>>

\* parsed = await extract_recipe_via_llm(...) and its exception handlers
P_Llm ==
    /\ call.fn = "parse_recipe_from_url"
    /\ call.pc = "llm_fallback"
    /\ call' = [Return(llm_result(extract_recipe_via_llm(call.doc)))
                   EXCEPT !.ran = Append(@, "llm_fallback")]
    /\ UNCHANGED <<jobs, queue, produced, now, wk, cl, hist, last, stage,
                 ingestions>>

\* ingestion_service.parse_recipe: fetch_html fails and the failure is
\* returned
I_Fetch ==
    /\ call.fn = "parse_recipe"
    /\ call.pc = "fetch_html"
    /\ call.doc.fetch.kind # "html"
    /\ call' = Return(ingestion_fetch_failure(call.doc.fetch))
    /\ UNCHANGED <<jobs, queue, produced, now, wk, cl, hist, last, stage,
                 ingestions>>

\* ingestion_service.parse_recipe on a server_fetch input whose page was
\* fetched (no jsonld_blocks, no images): the HTML path tries schema_org,
\* microdata and heuristic; a recipe is returned as client_html, else the
\* model-assisted extractor is due
I_Extract ==
    /\ call.fn = "parse_recipe"
    /\ call.pc = "fetch_html"
    /\ call.doc.fetch.kind = "html"
    /\ LET found == {i \in DOMAIN strategies :
                        extract(strategies[i], call.doc) # NoRecipe}
           first == CHOOSE i \in found : \A k \in found : i <= k
       IN call' =
            IF found # {}
            THEN [call EXCEPT
                    !.pc = "done",
                    !.ran = SubSeq(strategies, 1, first),
                    !.res = ParseResult(TRUE,
                                        extract(strategies[first], call.doc),
                                        FALSE, "client_html", {}, None, None)]
            ELSE [call EXCEPT !.pc = "llm_fallback", !.ran = strategies]
    /\ UNCHANGED <<jobs, queue, produced, now, wk, cl, hist, last, stage,
                 ingestions>>

\* ingestion_service.parse_recipe, "LLM fallback if we have html": the call of
\* extract_recipe_via_llm and its except Exception
I_Llm ==
    /\ call.fn = "parse_recipe"
    /\ call.pc = "llm_fallback"
    /\ LET r == extract_recipe_via_llm(call.doc)
           res == IF r.exc = None
                  THEN ParseResult(TRUE, r.recipe, TRUE, "llm_fallback", {},
                                   None, None)
                  ELSE ParseResult(FALSE, NoRecipe, FALSE, None,
                                   {"llm_failed"}, "llm_failed", None)
       IN call' = [Return(res) EXCEPT !.ran = Append(@, "llm_fallback")]
    /\ UNCHANGED <<jobs, queue, produced, now, wk, cl, hist, last, stage,
                 ingestions>>

NextParse ==
    \/ P_Fetch
    \/ P_Extract
    \/ P_Llm
    \/ I_Fetch
    \/ I_Extract
    \/ I_Llm

SpecParse == InitParse /\ [][NextParse]_vars

\* ------------------------------------------------------ the OCR quality gate

\* An OCR text as score_quality measures it: len(text), the non-blank lines,
\* the letters, the runs of two letters or more (tokens), the letters and
\* the vowels in the tokens, the tokens with a vowel, the lines holding a
\* section keyword, whether a line starts like a quantity and whether one
\* starts like a numbered step.  The measures are those some text has:
\* letters are characters, tokens are made of two letters at least, vowels
\* are token letters, a line that starts like a numbered step starts with a
\* digit and so like a quantity
Texts ==
    {t \in [char_count : {499, 500, 600}, line_count : {9, 10},
            alpha_chars : {300, 324, 325, 389, 390}, token_count : {49, 50},
            token_chars : {200, 300}, vowels : {59, 60, 89, 90},
            vowelful_tokens : {19, 20}, keyword_lines : {1, 2},
            ingredient_like : BOOLEAN, step_like : BOOLEAN] :
        /\ t.alpha_chars <= t.char_count
        /\ t.token_chars <= t.alpha_chars
        /\ 2 * t.token_count <= t.token_chars
        /\ t.vowels <= t.token_chars
        /\ t.vowelful_tokens <= t.token_count
        /\ t.vowelful_tokens <= t.vowels
        /\ t.keyword_lines <= t.line_count
        /\ 2 * t.line_count - 1 <= t.char_count
        /\ t.step_like => t.ingredient_like}

\* ocr_quality._gibberish_flags; a ratio a / b < p / 100 is a * 100 < p * b
gibberish_flags(text) ==
    LET alpha_low == IF text.char_count = 0 THEN TRUE
                     ELSE text.alpha_chars * 100 < 65 * text.char_count
        token_chars == IF text.token_chars = 0 THEN 1 ELSE text.token_chars
        vowel_low == text.vowels * 100 < 30 * token_chars
    IN [alpha_low |-> alpha_low,
        vowel_low |-> vowel_low,
        token_count |-> text.token_count,
        vowelful_tokens |-> text.vowelful_tokens,
        is_gibberish |-> \/ alpha_low
                         \/ vowel_low
                         \/ text.vowelful_tokens < 20
                         \/ text.token_count < 50]

\* the soft score: one point for each signal present; mean_confidence is
\* Optional[float], <<>> for None
soft_score(text, mean_confidence) ==
    (IF mean_confidence # <<>> /\ mean_confidence[1] >= 50 THEN 1 ELSE 0)
    + (IF text.keyword_lines >= 2 THEN 1 ELSE 0)
    + (IF text.ingredient_like THEN 1 ELSE 0)
    + (IF text.step_like THEN 1 ELSE 0)

\* a gate that looks at the floors and the soft score only
score_quality_no_veto(text, mean_confidence) ==
    LET hard_fail == text.char_count < 500 \/ text.line_count < 10
        gib == gibberish_flags(text)
        score == soft_score(text, mean_confidence)
    IN [char_count |-> text.char_count, line_count |-> text.line_count,
        hard_fail |-> hard_fail \/ gib.is_gibberish,
        gibberish |-> gib.is_gibberish, score |-> score,
        pass_gate |-> ~hard_fail /\ score >= 2]

\* ocr_quality.score_quality
score_quality(text, mean_confidence) ==
    LET hard_fail == text.char_count < 500 \/ text.line_count < 10
        gib == gibberish_flags(text)
        score == soft_score(text, mean_confidence)
    IN [char_count |-> text.char_count, line_count |-> text.line_count,
        hard_fail |-> hard_fail \/ gib.is_gibberish,
        gibberish |-> gib.is_gibberish, score |-> score,
        pass_gate |-> ~hard_fail /\ score >= 2 /\ ~gib.is_gibberish]

InitQuality ==
    /\ jobs = [j \in JobIds |-> NoJob]
    /\ queue = {}
    /\ produced = 0
    /\ now = 1
    /\ wk = [w \in Workers |-> IdleWorker]
    /\ cl = [c \in Clients |-> IdleClient]
    /\ hist = [j \in JobIds |-> NoHist]
    /\ last = NoCall
    /\ stage = {}
    /\ ingestions = NoIngestions
    /\ call \in [fn : {"score_quality"}, text : Texts,
                 mean_confidence : {<<>>, <<49>>, <<50>>},
                 pc : {"call"}, res : {<<>>}]

\* quality_result = ocr_quality.score_quality(combined_text, mean_confidence)
Q_Score ==
    /\ call.fn = "score_quality"
    /\ call.pc = "call"
    /\ call' = [call EXCEPT
                  !.pc = "done",
                  !.res = score_quality(call.text, call.mean_confidence)]
    /\ UNCHANGED <<jobs, queue, produced, now, wk, cl, hist, last, stage,
                 ingestions>>

NextQuality == Q_Score

SpecQuality == InitQuality /\ [][NextQuality]_vars

\* ------------------------------------------------ quantity normalisation

\* A string is the sequence of its characters; HALF stands for the
\* character U+00BD, one of the keys of FRACTION_MAP
HALF == "U+00BD"

Digits == {"0", "1", "2"}
Whitespace == {" ", "\t"}

\* FRACTION_MAP, the entry of the character above
FRACTION_MAP == [c \in {HALF} |-> <<"1", "/", "2">>]

\* the strings of MaxLen characters at most quantities are written with
QtyStrings ==
    UNION {[1..n -> {"0", "1", ".", "-", "/", HALF} \cup Whitespace] :
              n \in 0..MaxLen}

\* Optional[str]: a string, or None
Str(s) == [none |-> FALSE, s |-> s]
NoneStr == [none |-> TRUE, s |-> <<>>]

\* re.sub(rf"(\d)([{fraction_chars}])", r"\1 \2", s)
RECURSIVE space_before_fraction(_)
space_before_fraction(s) ==
    IF Len(s) < 2 THEN s
    ELSE IF s[1] \in Digits /\ s[2] \in DOMAIN FRACTION_MAP
    THEN <<s[1], " ">> \o space_before_fraction(Tail(s))
    ELSE <<s[1]>> \o space_before_fraction(Tail(s))

\* for k, v in FRACTION_MAP.items(): s = s.replace(k, v)
RECURSIVE replace_fractions(_)
replace_fractions(s) ==
    IF s = <<>> THEN s
    ELSE (IF s[1] \in DOMAIN FRACTION_MAP THEN FRACTION_MAP[s[1]]
          ELSE <<s[1]>>)
         \o replace_fractions(Tail(s))

\* re.sub(r"\s+", " ", s)
RECURSIVE collapse_whitespace(_)
collapse_whitespace(s) ==
    IF s = <<>> THEN s
    ELSE IF s[1] \in Whitespace
    THEN IF Len(s) >= 2 /\ s[2] \in Whitespace
         THEN collapse_whitespace(Tail(s))
         ELSE <<" ">> \o collapse_whitespace(Tail(s))
    ELSE <<s[1]>> \o collapse_whitespace(Tail(s))

\* str.strip(): from the first to the last character that is not whitespace
strip(s) ==
    LET keep == {i \in DOMAIN s : s[i] \notin Whitespace}
    IN IF keep = {} THEN <<>>
       ELSE SubSeq(s, CHOOSE i \in keep : \A k \in keep : i <= k,
                      CHOOSE i \in keep : \A k \in keep : i >= k)

\* the numeric step of _normalize_fraction_display: a string that matches
\* -?\d+(\.\d+)? becomes str(int(num)) if float(s) is an integer, else
\* str(num); str() writes the numbers of up to 6 characters with no exponent
normalize_number(s) ==
    LET u == IF s # <<>> /\ s[1] = "-" THEN Tail(s) ELSE s
        dots == {i \in DOMAIN u : u[i] = "."}
        dot == IF dots = {} THEN 0
               ELSE CHOOSE i \in dots : \A k \in dots : i <= k
        int == IF dot = 0 THEN u ELSE SubSeq(u, 1, dot - 1)
        frac == IF dot = 0 THEN <<>> ELSE SubSeq(u, dot + 1, Len(u))
        digits(x) == x # <<>> /\ \A i \in DOMAIN x : x[i] \in Digits
        nonzero(x) == {i \in DOMAIN x : x[i] # "0"}
        int_str == IF nonzero(int) = {} THEN <<"0">>
                   ELSE SubSeq(int, CHOOSE i \in nonzero(int) :
                                      \A k \in nonzero(int) : i <= k,
                               Len(int))
        frac_str == IF nonzero(frac) = {} THEN <<>>
                    ELSE SubSeq(frac, 1, CHOOSE i \in nonzero(frac) :
                                           \A k \in nonzero(frac) : i >= k)
        minus == IF s[1] = "-" THEN <<"-">> ELSE <<>>
    IN IF ~(digits(int) /\ (dot # 0 => digits(frac))) THEN s
       ELSE IF frac_str = <<>>
       THEN IF int_str = <<"0">> THEN int_str ELSE minus \o int_str
       ELSE minus \o int_str \o <<".">> \o frac_str

\* a normalisation that rewrites the number before it trims the string
normalize_number_first(qty) ==
    IF qty.none \/ qty.s = <<>> THEN qty
    ELSE LET s == strip(collapse_whitespace(replace_fractions(
                      space_before_fraction(normalize_number(qty.s)))))
         IN IF s = <<>> THEN NoneStr ELSE Str(s)

\* url_recipe_parser._normalize_fraction_display and its copy in
\* url_parsing.parsing_utils
normalize_fraction_display(qty) ==
    IF qty.none \/ qty.s = <<>> THEN qty
    ELSE LET s == normalize_number(strip(collapse_whitespace(
                      replace_fractions(space_before_fraction(qty.s)))))
         IN IF s = <<>> THEN NoneStr ELSE Str(s)

InitFraction ==
    /\ jobs = [j \in JobIds |-> NoJob]
    /\ queue = {}
    /\ produced = 0
    /\ now = 1
    /\ wk = [w \in Workers |-> IdleWorker]
    /\ cl = [c \in Clients |-> IdleClient]
    /\ hist = [j \in JobIds |-> NoHist]
    /\ last = NoCall
    /\ stage = {}
    /\ ingestions = NoIngestions
    /\ call \in {[fn |-> "normalize_fraction_display", qty |-> Str(x),
                  out |-> <<>>] : x \in QtyStrings}

\* the function is applied to the quantity, then to its own output (as
\* normalize_parsed_recipe does to the quantities the cleaner normalised)
N_Apply ==
    /\ call.fn = "normalize_fraction_display"
    /\ Len(call.out) < 2
    /\ LET arg == IF call.out = <<>> THEN call.qty
                  ELSE call.out[Len(call.out)]
       IN call' = [call EXCEPT
                     !.out = Append(@, normalize_fraction_display(arg))]
    /\ UNCHANGED <<jobs, queue, produced, now, wk, cl, hist, last, stage,
                 ingestions>>

NextFraction == N_Apply

SpecFraction == InitFraction /\ [][NextFraction]_vars

\* ------------------------------------------------- quantity / unit split

\* A string is given as the sequence of its whitespace-separated pieces, and
\* so are the strings of a result (joined by single spaces).
\* qty.replace("(", " ").replace(")", " ").replace(",", " ").split(): the
\* replacements turn "(85%)" into "85%", "onions," into "onions" and "("
\* into nothing
RECURSIVE qty_tokens(_)
qty_tokens(qty) ==
    IF qty = <<>> THEN <<>>
    ELSE (IF qty[1] = "(85%)" THEN <<"85%">>
          ELSE IF qty[1] = "onions," THEN <<"onions">>
          ELSE IF qty[1] = "(" THEN <<>>
          ELSE <<qty[1]>>)
         \o qty_tokens(Tail(qty))

\* a split that takes the last piece for the unit, whatever it is and
\* whatever stands before it
split_at_last_piece(qty) ==
    IF qty = <<>> THEN [qty |-> NoneStr, unit |-> NoneStr]
    ELSE [qty |-> IF Len(qty) > 1 THEN Str(SubSeq(qty, 1, Len(qty) - 1))
                  ELSE NoneStr,
          unit |-> Str(<<qty[Len(qty)]>>)]

\* parse_job_service._split_qty_unit
split_qty_unit(qty) ==
    LET tokens == qty_tokens(qty)
        \* tok.lower().strip(".,") in units
        is_unit(t) == t \in {"cups", "Cups.", "pinch"}
        \* tok.rstrip(".,")
        rstrip_punct(t) == IF t = "Cups." THEN "Cups" ELSE t
        \* _should_split(" ".join(tokens[:idx])): empty, or ^[0-9/]
        should_split(before) ==
            before = <<>> \/ before[1] \in {"2", "/4", "85%"}
        first3 == {i \in DOMAIN tokens :
                     /\ i <= 3
                     /\ is_unit(tokens[i])
                     /\ should_split(SubSeq(tokens, 1, i - 1))}
        Split(i) ==
            [qty |-> IF i = 1 THEN NoneStr ELSE Str(SubSeq(tokens, 1, i - 1)),
             unit |-> Str(<<rstrip_punct(tokens[i])>>)]
    IN IF qty = <<>> THEN [qty |-> NoneStr, unit |-> NoneStr]
       ELSE IF Len(tokens) < 2 THEN [qty |-> Str(qty), unit |-> NoneStr]
       ELSE IF first3 # {}
       THEN Split(CHOOSE i \in first3 : \A k \in first3 : i <= k)
       ELSE IF /\ is_unit(tokens[Len(tokens)])
               /\ should_split(SubSeq(tokens, 1, Len(tokens) - 1))
       THEN Split(Len(tokens))
       ELSE [qty |-> Str(qty), unit |-> NoneStr]

InitSplit ==
    /\ jobs = [j \in JobIds |-> NoJob]
    /\ queue = {}
    /\ produced = 0
    /\ now = 1
    /\ wk = [w \in Workers |-> IdleWorker]
    /\ cl = [c \in Clients |-> IdleClient]
    /\ hist = [j \in JobIds |-> NoHist]
    /\ last = NoCall
    /\ stage = {}
    /\ ingestions = NoIngestions
    /\ call \in [fn : {"_split_qty_unit"},
                 qty : UNION {[1..n -> {"2", "/4", "cups", "Cups.", "pinch",
                                        "onions,", "(85%)", "("}] :
                                 n \in 0..MaxTokens},
                 pc : {"call"}, res : {<<>>}]

\* qty_only, unit = _split_qty_unit(qty) in the normalisation of a result
S_Split ==
    /\ call.fn = "_split_qty_unit"
    /\ call.pc = "call"
    /\ call' = [call EXCEPT !.pc = "done", !.res = split_qty_unit(call.qty)]
    /\ UNCHANGED <<jobs, queue, produced, now, wk, cl, hist, last, stage,
                 ingestions>>

NextSplit == S_Split

SpecSplit == InitSplit /\ [][NextSplit]_vars

\* ------------------------------------------------- two workers on one table
\* A queue worker (queue_worker.process_job) and a polling worker
\* (run_parse_worker.process_one) run against the same table: neither
\* fetch_next_pending nor db.get locks the row, and mark_running does not
\* test for RUNNING.

NextDual ==
    \/ \E j \in JobIds : Submit(j, "url", TRUE)
    \/ \E j \in JobIds : \E env \in ProducerMessages(j, jobs[j]) : Produce(j, env)
    \/ \E w \in QueueWorkers : \E env \in queue : QW_Receive(w, env)
    \/ \E w \in PollWorkers, j \in JobIds : PW_Fetch(w, j)
    \/ \E w \in Workers : W_MarkRunning(w)
    \/ \E w \in Workers : W_Refresh(w)
    \/ \E w \in QueueWorkers : W_Reject(w)
    \/ \E w \in Workers : \E r \in parse_recipe_from_url(TRUE) : W_Outcome(w, r)

SpecDual == Init /\ [][NextDual]_vars

\* ------------------------------------------------------ meal plan jobs
\* The polling worker on a meal_plan_generate job: generate_meal_plan stages
\* the recipes it picks from external sources, the handler stores the plan,
\* and the cleanup of run_parse_worker.main deletes expired stage recipes and
\* abandons the jobs of their requests.

\* meal_plan_service.create_stage_recipe: expires_at = utcnow() + 72 hours,
\* in ticks
stage_ticks == 1

\* meal_plan_service.cleanup_expired_stage_recipes(mark_jobs=True): the table
\* and the stage recipes after the call; the request_id in the job_data of job
\* j is j
cleanup_expired_stage_recipes(table, staged, t) ==
    LET expired == {s \in staged : s.expires_at <= t}
        request_ids == {s.request_id : s \in expired}
    IN [jobs |-> [j \in DOMAIN table |->
                    IF /\ table[j].job_type = "meal_plan_generate"
                       /\ j \in request_ids
                       /\ table[j].status \notin {"ABANDONED", "COMPLETED"}
                    THEN [table[j] EXCEPT !.status = "ABANDONED",
                                          !.abandoned_at = t]
                    ELSE table[j]],
        stage |-> staged \ expired]

\* meal_plan_service.generate_meal_plan: create_stage_recipe commits a stage
\* recipe for the request while the job runs
W_Stage(w) ==
    /\ wk[w].pc = "handler"
    /\ wk[w].handler = "meal_plan_generate"
    /\ \A s \in stage : s.request_id # wk[w].job
    /\ stage' = stage \cup {[request_id |-> wk[w].job,
                             expires_at |-> now + stage_ticks]}
    /\ UNCHANGED <<jobs, queue, produced, now, wk, cl, hist, last, call, ingestions>>

\* run_parse_worker.process_one, job_type meal_plan_generate: the plan is
\* stored and the status set to COMPLETE in the handler itself; an exception
\* of the generation is marked as an error
W_MealPlan(w, generated) ==
    /\ wk[w].pc = "handler"
    /\ wk[w].handler = "meal_plan_generate"
    /\ LET j == wk[w].job
           view == View(jobs[j], wk[w].snap)
           obj == IF generated
                  THEN [view EXCEPT !.result_json = "result",
                                    !.status = COMPLETE]
                  ELSE mark_error(view, "generation_failed", now)
       IN jobs' = Write(j, wk[w].snap, obj)
    /\ wk' = [wk EXCEPT ![w] = IdleWorker]
    /\ UNCHANGED <<queue, produced, now, cl, hist, last, call, stage, ingestions>>

\* run_parse_worker.main: after process_one, abandon_stale_jobs and then
\* cleanup_expired_stage_recipes(mark_jobs=True)
Cleanup ==
    /\ \A w \in PollWorkers : wk[w].pc = "idle"
    /\ LET swept == abandon_stale_jobs(jobs, abandon_ticks, now)
           cleaned == cleanup_expired_stage_recipes(swept, stage, now)
       IN /\ jobs' = cleaned.jobs
          /\ stage' = cleaned.stage
    /\ last' = [NoCall EXCEPT !.fn = "cleanup"]
    /\ UNCHANGED <<queue, produced, now, wk, cl, hist, call, ingestions>>

NextMeal ==
    \/ Tick
    \/ \E j \in JobIds : Submit(j, "meal_plan_generate", FALSE)
    \/ \E w \in PollWorkers, j \in JobIds : PW_Fetch(w, j)
    \/ \E w \in PollWorkers : W_MarkRunning(w)
    \/ \E w \in PollWorkers : W_Refresh(w)
    \/ \E w \in PollWorkers : W_Stage(w)
    \/ \E w \in PollWorkers, generated \in BOOLEAN : W_MealPlan(w, generated)
    \/ \E c \in Clients, j \in JobIds : Cancel_Read(c, j)
    \/ \E c \in Clients : Cancel_Write(c)
    \/ Cleanup

SpecMeal == Init /\ [][NextMeal]_vars

\* ------------------------------------------------------------ properties

\* every result a parser can hand to a handler
AllResults == parse_recipe_from_url(TRUE) \cup parse_recipe_ingestion

\* a step of a worker
WorkerStep == wk' # wk

\* C1: once the stored status of a job is CANCELED, no step of a worker
\* (result, error, or retry reset to PENDING) changes its status, its
\* canceled_at or its result_json.
C1_CancelNotOverwritten ==
    [][\A j \in JobIds :
          (jobs[j].status = CANCELED /\ WorkerStep) =>
             /\ jobs'[j].status = CANCELED
             /\ jobs'[j].canceled_at = jobs[j].canceled_at
             /\ jobs'[j].result_json = jobs[j].result_json]_vars

\* C2: mark_complete and mark_error called on a job whose status is CANCELED,
\* COMMITTED or ABANDONED leave the job as it was, whatever calls came before:
\* a canceled job stays CANCELED with the canceled_at it had.
C2_NoOpOnClosedJob ==
    (/\ last.fn \in {"mark_complete", "mark_error"}
     /\ last.before.status \in NoOpStates)
    => jobs[last.job] = last.before

\* mark_complete was called on a job canceled at an earlier time and the job
\* still has the status and the canceled_at it had
C2_Witness ==
    /\ last.fn = "mark_complete"
    /\ last.before.status = CANCELED
    /\ last.before.canceled_at # 0
    /\ last.before.canceled_at < now
    /\ jobs[last.job].status = CANCELED
    /\ jobs[last.job].canceled_at = last.before.canceled_at

\* C3: the delivery of a message for a job that is already COMPLETE, ERROR,
\* CANCELED, COMMITTED or ABANDONED is a no-op: the worker returns at once,
\* with no write to the job and no work for it.
C3_RedeliveryNoOp ==
    [][\A w \in QueueWorkers : \A env \in queue :
          (/\ QW_Receive(w, env)
           /\ jobs[lookup_id(env)].status \in Terminal)
          => (wk'[w] = IdleWorker /\ jobs' = jobs)]_vars

\* C4: a step that makes the stored status of a job COMMITTED finds it
\* COMPLETE; on any other stored status the commit leaves the job as it is.
C4_CommittedOnlyFromComplete ==
    [][\A j \in JobIds :
          (jobs'[j].status = COMMITTED /\ jobs[j].status # COMMITTED)
          => jobs[j].status = COMPLETE]_vars

\* C5: a cancel request on a job that is PENDING, RUNNING or COMPLETE leaves
\* it CANCELED with canceled_at set.
C5_CancelOpenJob ==
    (/\ last.fn = "cancel_parse_job"
     /\ last.before.status \in {PENDING, RUNNING, COMPLETE})
    => (/\ jobs[last.job].status = CANCELED
        /\ jobs[last.job].canceled_at # 0)

\* C6: a cancel request on a job that is ERROR, COMMITTED, ABANDONED or
\* CANCELED is answered 409 and leaves the job as it was.
C6_CancelClosedJobRejected ==
    (/\ last.fn = "cancel_parse_job"
     /\ last.before.status \in {ERROR, COMMITTED, ABANDONED, CANCELED})
    => (last.resp = "409" /\ jobs[last.job] = last.before)

\* a cancel request on a COMMITTED job was answered 409
C6_Witness ==
    /\ last.fn = "cancel_parse_job"
    /\ last.before.status = COMMITTED
    /\ last.resp = "409"
    /\ jobs[last.job].status = COMMITTED

\* C7: a handler that gets a failed result with a next_action neither puts
\* the job back to PENDING nor enqueues it, whatever the type of the job and
\* the attempts it has left.
C7_NextActionNeverRetried ==
    [][\A w \in Workers : \A r \in AllResults :
          (/\ W_Outcome(w, r)
           /\ ~r.success /\ ~r.raised /\ r.next_action # None)
          => (/\ queue' = queue
              /\ jobs'[wk[w].job].status = PENDING
                    => jobs[wk[w].job].status = PENDING)]_vars

\* C8: a handler puts a job back to PENDING or enqueues it only on a result
\* whose code is llm_timeout, llm_failed or fetch_failed with the job's
\* attempts below max_retries; on a failure with any other code, or with the
\* attempts at max_retries, nothing is enqueued and the handler leaves the job
\* in ERROR (unless the job was closed under it: CANCELED, COMMITTED or
\* ABANDONED when the handler looked).
C8_RetryOnlyRetryable ==
    [][\A w \in Workers :
          /\ \A r \in AllResults :
                W_Outcome(w, r) =>
                   LET j == wk[w].job
                       view == View(jobs[j], wk[w].snap)
                   IN /\ (\/ queue' # queue
                          \/ (jobs'[j].status = PENDING
                              /\ jobs[j].status # PENDING))
                         => (/\ r.error_code \in RetryableCodes
                             /\ view.attempts < max_retries)
                      /\ (/\ ~r.success
                          /\ \/ r.error_code \notin RetryableCodes
                             \/ view.attempts >= max_retries)
                         => (/\ queue' = queue
                             /\ (view.status \notin NoOpStates
                                 /\ wk'[w] = IdleWorker)
                                => jobs'[j].status = ERROR)
          /\ W_Override(w) => (/\ jobs'[wk[w].job].status = ERROR
                               /\ queue' = queue)]_vars

\* a job failed with a retryable code at the ceiling: it is in ERROR with
\* that code and nothing is enqueued
C8_Witness ==
    \E j \in JobIds :
       /\ jobs[j].status = ERROR
       /\ jobs[j].attempts >= max_retries
       /\ jobs[j].error_code \in RetryableCodes
       /\ hist[j].code = jobs[j].error_code
       /\ queue = {}

\* C9: a queue worker whose job fails with llm_timeout, llm_failed or
\* fetch_failed, with no next_action and attempts below max_retries, sets the
\* job PENDING, leaves job_data as it is and enqueues an envelope with the
\* job's type, id and job_data.
C9_RetryReenqueues ==
    [][\A w \in QueueWorkers : \A r \in AllResults :
          (/\ W_Outcome(w, r)
           /\ ~r.success /\ ~r.raised
           /\ r.error_code \in RetryableCodes
           /\ r.next_action = None
           /\ View(jobs[wk[w].job], wk[w].snap).attempts < max_retries)
          => LET j == wk[w].job
             IN /\ jobs'[j].status = PENDING
                /\ jobs'[j].job_data = jobs[j].job_data
                /\ create_envelope(jobs[j].job_type, j, j, jobs[j].job_data)
                      \in queue']_vars

\* a job that failed with llm_timeout is PENDING again and an envelope with
\* its job_data is in the queue
C9_Witness ==
    \E j \in JobIds :
       /\ jobs[j].status = PENDING
       /\ jobs[j].error_code = "llm_timeout"
       /\ jobs[j].attempts >= 1
       /\ jobs[j].attempts < max_retries
       /\ create_envelope(jobs[j].job_type, j, j, jobs[j].job_data) \in queue
       /\ jobs[j].job_data = "data"

\* C10: a job whose every attempt failed with a retryable code and that is in
\* ERROR has the code of its last failed attempt as error_code.
C10_ErrorIsLastCode ==
    \A j \in JobIds :
       (/\ jobs[j].status = ERROR
        /\ hist[j].code # None
        /\ hist[j].clean)
       => jobs[j].error_code = hist[j].code

\* C11: the queue worker goes on with the job whose id is the envelope's
\* workflow_id when the envelope is ocr.completed and the envelope's job_id
\* for every other job type, returns at once only when that job is missing
\* or CANCELED, and its later steps write that job's row and no other.
C11_CorrelationByWorkflowId ==
    [][\A w \in QueueWorkers :
          /\ \A env \in queue :
                QW_Receive(w, env) =>
                   LET origin == IF env.job_type = "ocr.completed"
                                 THEN env.workflow_id ELSE env.job_id
                   IN IF wk'[w] = IdleWorker
                      THEN jobs[origin].status \in {ABSENT, CANCELED}
                      ELSE wk'[w].job = origin
          /\ (wk[w].pc # "idle" /\ WorkerStep) =>
                \A k \in DOMAIN jobs :
                   k # wk[w].job => jobs'[k] = jobs[k]]_vars

\* the completion minted as o1 for j1 was handled: j1 carries the handler's
\* verdict, j2 is untouched and no row has the minted id
C11_Witness ==
    /\ jobs["j1"].status = ERROR
    /\ jobs["j1"].error_code = "ocr_no_results"
    /\ jobs["j2"].status = PENDING
    /\ jobs["j2"].attempts = 0
    /\ jobs["o1"].status = ABSENT

\* C12: when the OCR handler is done with a batch in which an image failed
\* and an image succeeded with good text, the job is COMPLETE.
C12_PartialFailureCompletes ==
    [][\A w \in QueueWorkers :
          (/\ wk[w].handler = "ocr_completed"
           /\ wk[w].pc \in {"handler", "is_canceled"}
           /\ wk'[w] = IdleWorker
           /\ wk[w].res.status = "success"
           /\ wk[w].res.error_code = None
           /\ failed_results(wk[w].res) # {}
           /\ \E r \in successful_results(wk[w].res) : r.ocr_text = "good")
          => jobs'[wk[w].job].status = COMPLETE]_vars

HandlerRaises(w) ==
    \/ W_Outcome(w, Raised)
    \/ W_OcrIsCanceled(w)

\* C14: when a handler catches an unexpected exception, the job (unless it
\* was closed under the worker: CANCELED, COMMITTED or ABANDONED) is left in
\* ERROR with error_code worker_error, and nothing is enqueued.
C14_ExceptionIsWorkerError ==
    [][\A w \in Workers :
          (/\ HandlerRaises(w)
           /\ View(jobs[wk[w].job], wk[w].snap).status \notin NoOpStates)
          => (/\ jobs'[wk[w].job].status = ERROR
              /\ jobs'[wk[w].job].error_code = "worker_error"
              /\ queue' = queue)]_vars

\* C15: the orchestrator runs structured data, microdata placeholder,
\* heuristic and model-assisted extraction in that order and stops at the
\* first that finds a recipe; a page with complete structured recipe data
\* ends with success, parser_strategy schema_org_json_ld and no other
\* extractor run, whatever the heuristic extractor would find
C15_SchemaFirst ==
    call.fn = "parse_recipe_from_url" =>
        LET order == <<"schema_org_json_ld", "microdata", "heuristic",
                       "llm_fallback">>
            ran == call.ran
        IN /\ Len(ran) <= Len(order)
           /\ \A i \in DOMAIN ran : ran[i] = order[i]
           /\ (call.pc = "done" /\ call.res.success) =>
                /\ ran # <<>>
                /\ call.res.parser_strategy = ran[Len(ran)]
                /\ call.res.used_llm = (ran[Len(ran)] = "llm_fallback")
           /\ (/\ call.pc = "done"
               /\ call.doc.fetch.kind = "html"
               /\ Complete(call.doc.schema)) =>
                /\ call.res.success
                /\ call.res.parser_strategy = "schema_org_json_ld"
                /\ ran = <<"schema_org_json_ld">>

\* a page with complete structured data and a complete heuristic match has
\* been parsed
C15_Witness ==
    /\ call.fn = "parse_recipe_from_url"
    /\ call.pc = "done"
    /\ call.doc.fetch.kind = "html"
    /\ Complete(call.doc.schema)
    /\ Complete(call.doc.heuristic)
    /\ call.res.parser_strategy = "schema_org_json_ld"

\* C16: whatever the input and the strategy, a ParseResult carries a recipe
\* only if the recipe's title, ingredients and steps are all non-empty
C16_RecipeOnlyIfComplete ==
    (call.fn = "parse_recipe_from_url" /\ call.res.recipe # NoRecipe) =>
        Complete(call.res.recipe[1])

\* C17: a failure of the model-assisted extractor never leaves
\* parse_recipe_from_url as an exception: a model timeout is returned with
\* error_code llm_timeout, and a transport error, an in-band error object
\* and output still invalid after the repairs are returned with error_code
\* llm_failed
C17_LlmFailureIsResult ==
    (/\ call.fn = "parse_recipe_from_url"
     /\ call.pc = "done"
     /\ "llm_fallback" \in {call.ran[i] : i \in DOMAIN call.ran}) =>
        /\ ~call.res.raised
        /\ call.doc.llm.kind = "timeout" =>
             (~call.res.success /\ call.res.error_code = "llm_timeout")
        /\ call.doc.llm.kind \in {"transport", "error_object", "invalid_json"}
             => (~call.res.success /\ call.res.error_code = "llm_failed")

\* C18: a fetch that fails with HTTP 401 or 403 gives a failed result with
\* error_code fetch_failed, the blocked_by_site warning and a next_action
\* hint, from parse_recipe_from_url as from the ingestion parse_recipe
C18_BlockedBySite ==
    (/\ call.fn \in {"parse_recipe_from_url", "parse_recipe"}
     /\ call.pc = "done"
     /\ call.doc.fetch.kind = "http_status"
     /\ call.doc.fetch.status_code \in {401, 403}) =>
        /\ ~call.res.success
        /\ call.res.error_code = "fetch_failed"
        /\ "blocked_by_site" \in call.res.warnings
        /\ call.res.next_action # None

\* C19: the quality gate passes exactly when the text has 500 characters
\* and 10 non-blank lines at least, is not flagged gibberish and has a soft
\* score of 2 or more; a text whose alphabetic ratio is below 0.65 does not
\* pass, whatever its soft score
C19_GateIff ==
    (call.fn = "score_quality" /\ call.pc = "done") =>
        LET t == call.text
            r == call.res
        IN /\ r.pass_gate <=> (/\ t.char_count >= 500
                               /\ t.line_count >= 10
                               /\ ~r.gibberish
                               /\ r.score >= 2)
           /\ t.alpha_chars * 100 < 65 * t.char_count =>
                (r.gibberish /\ ~r.pass_gate)

\* a long text of real words whose letters are under 65% of its characters
\* has been scored 2 or more and has not passed
C19_Witness ==
    /\ call.fn = "score_quality"
    /\ call.pc = "done"
    /\ call.text.char_count >= 500
    /\ call.text.line_count >= 10
    /\ call.text.alpha_chars * 100 < 65 * call.text.char_count
    /\ call.text.vowels * 100 >= 30 * call.text.token_chars
    /\ call.text.vowelful_tokens >= 20
    /\ call.text.token_count >= 50
    /\ call.res.score >= 2
    /\ ~call.res.pass_gate

\* C20: normalize_fraction_display is idempotent: applied to its own
\* output it returns that output
C20_Idempotent ==
    (call.fn = "normalize_fraction_display" /\ Len(call.out) = 2) =>
        call.out[2] = call.out[1]

\* a quantity the function changes (a digit with a fraction character
\* attached) has been normalised twice
C20_Witness ==
    /\ call.fn = "normalize_fraction_display"
    /\ Len(call.out) = 2
    /\ call.qty = Str(<<"0", "1", HALF>>)
    /\ call.out[1] = Str(<<"0", "1", " ", "1", "/", "2">>)

\* C21: _split_qty_unit splits at a known unit word among the first three
\* tokens, or at the last token, when what stands before the unit is empty
\* or starts with a digit or a slash, and returns what stands before the
\* unit (or None) and the unit without trailing punctuation; in every other
\* case it returns the input unchanged with no unit
C21_SplitAtUnit ==
    (call.fn = "_split_qty_unit" /\ call.pc = "done") =>
        LET t == qty_tokens(call.qty)
            unit(i) == t[i] \in {"cups", "Cups.", "pinch"}
            numeric == t[1] \in {"2", "/4", "85%"}
            at == {i \in DOMAIN t :
                     (i <= 3 \/ i = Len(t)) /\ unit(i) /\ (i = 1 \/ numeric)}
        IN IF at # {}
           THEN \E i \in at :
                  /\ call.res.qty = IF i = 1 THEN NoneStr
                                    ELSE Str(SubSeq(t, 1, i - 1))
                  /\ call.res.unit =
                       Str(<<IF t[i] = "Cups." THEN "Cups" ELSE t[i]>>)
           ELSE call.res = [qty |-> Str(call.qty), unit |-> NoneStr]

\* C21 as the code has it: the split is made only in a string of two tokens
\* or more, at the first unit word among the first three tokens that may be
\* split at, else at the last token; a string of one token is returned
\* unchanged with no unit even if it is a unit word, and the empty string
\* gives (None, None)
C21_SplitAtUnitOfTwoTokens ==
    (call.fn = "_split_qty_unit" /\ call.pc = "done") =>
        LET t == qty_tokens(call.qty)
            unit(i) == t[i] \in {"cups", "Cups.", "pinch"}
            numeric == t[1] \in {"2", "/4", "85%"}
            ok(i) == unit(i) /\ (i = 1 \/ numeric)
            head == {i \in DOMAIN t : i <= 3 /\ ok(i)}
            at == IF head # {} THEN CHOOSE i \in head : \A k \in head : i <= k
                  ELSE Len(t)
        IN IF call.qty = <<>>
           THEN call.res = [qty |-> NoneStr, unit |-> NoneStr]
           ELSE IF Len(t) >= 2 /\ ok(at)
           THEN /\ call.res.qty = IF at = 1 THEN NoneStr
                                  ELSE Str(SubSeq(t, 1, at - 1))
                /\ call.res.unit =
                     Str(<<IF t[at] = "Cups." THEN "Cups" ELSE t[at]>>)
           ELSE call.res = [qty |-> Str(call.qty), unit |-> NoneStr]

\* "2 cups (85%)" has been split into "2" and "cups"
C21_Witness ==
    /\ call.fn = "_split_qty_unit"
    /\ call.pc = "done"
    /\ call.qty = <<"2", "cups", "(85%)">>
    /\ call.res = [qty |-> Str(<<"2">>), unit |-> Str(<<"cups">>)]

\* C22: at most one worker is processing a given job: the queue worker and
\* the polling worker are never both past mark_running on the same job with
\* its extraction still to run.
C22_OneWorkerPerJob ==
    \A v \in Workers, w \in Workers :
       (/\ v # w
        /\ wk[v].pc = "handler"
        /\ wk[w].pc = "handler"
        /\ wk[v].snap.status = RUNNING
        /\ wk[w].snap.status = RUNNING) => wk[v].job # wk[w].job

\* C24: the attempts counter of a job starts at 0, never decreases, and
\* changes only in a mark_running step that moves the job to RUNNING, where
\* it grows by exactly one.
C24_AttemptsCountRuns ==
    [][\A j \in JobIds :
          /\ (jobs[j].status = ABSENT /\ jobs'[j].status # ABSENT)
                => jobs'[j].attempts = 0
          /\ (jobs[j].status # ABSENT /\ jobs'[j].attempts # jobs[j].attempts)
                => /\ jobs'[j].attempts = jobs[j].attempts + 1
                   /\ jobs'[j].status = RUNNING
                   /\ \E w \in Workers : wk[w].pc = "mark_running"
                                         /\ wk'[w].pc # "mark_running"]_vars

\* C25: a job becomes ABANDONED only from COMPLETE: no sweep or cleanup moves
\* a PENDING, RUNNING, ERROR, CANCELED or COMMITTED job to ABANDONED.
C25_AbandonedOnlyFromComplete ==
    [][\A j \in JobIds :
          (jobs[j].status # ABANDONED /\ jobs'[j].status = ABANDONED)
             => jobs[j].status = COMPLETE]_vars

\* C26: every job whose status is COMPLETE or ERROR has completed_at set.
C26_CompletedAtSet ==
    \A j \in JobIds :
       jobs[j].status \in {COMPLETE, ERROR} => jobs[j].completed_at # 0

\* C27: a job re-enqueued for retry is, on its next delivery, routed to the
\* handler of its first attempt: a queue worker that takes a message of a job
\* reset to PENDING after an attempt goes on as the handler of the job's type.
C27_RetrySameHandler ==
    [][\A w \in QueueWorkers :
          (/\ wk[w].pc = "idle"
           /\ wk'[w].pc = "mark_running"
           /\ jobs[wk'[w].job].status = PENDING
           /\ jobs[wk'[w].job].attempts >= 1)
             => wk'[w].handler = jobs[wk'[w].job].job_type]_vars

\* C28: when every image of an OCR batch failed, the job ends in ERROR with
\* error_code ocr_all_images_failed and is not re-enqueued.
C28_AllImagesFailed ==
    [][\A w \in QueueWorkers :
          (/\ wk[w].pc = "handler"
           /\ wk[w].handler = "ocr_completed"
           /\ wk'[w].pc = "idle"
           /\ wk[w].snap.status = RUNNING
           /\ jobs[wk[w].job].status = RUNNING
           /\ wk[w].res.status = "success"
           /\ wk[w].res.error_code = None
           /\ wk[w].res.results # {}
           /\ successful_results(wk[w].res) = {})
             => /\ jobs'[wk[w].job].status = ERROR
                /\ jobs'[wk[w].job].error_code = "ocr_all_images_failed"
                /\ queue' = queue]_vars

\* C23: in OCR-completion processing, if the job is CANCELED when the worker
\* has re-read it before an expensive step, the worker stops without making
\* the call, the job stays CANCELED and nothing is written to the job.
C23_CanceledSeenStops ==
    [][\A w \in QueueWorkers :
          (/\ wk[w].pc = "is_canceled"
           /\ wk[w].snap.status = CANCELED
           /\ wk'[w] # wk[w])
             => /\ wk'[w] = IdleWorker
                /\ jobs'[wk[w].job] = jobs[wk[w].job]
                /\ jobs'[wk[w].job].status = CANCELED]_vars

\* a worker found the job CANCELED at the check and has stopped
C23_Witness ==
    /\ last.fn = "is_canceled"
    /\ last.resp = CANCELED
    /\ jobs[last.job].status = CANCELED
    /\ jobs[last.job].error_code = None
    /\ \A w \in QueueWorkers : wk[w].pc = "idle"

\* C30: for an image job, once OCR-completion processing has finished, the
\* job is COMPLETE exactly when its ingestion is SUCCEEDED, and a job that
\* ended in ERROR has its ingestion FAILED.
C30_JobAndIngestionAgree ==
    [][\A w \in QueueWorkers :
          (/\ wk[w].handler = "ocr_completed"
           /\ wk[w].pc \in {"handler", "is_canceled"}
           /\ wk'[w].pc = "idle")
             => LET j == wk[w].job
                IN /\ (jobs'[j].status = COMPLETE)
                         <=> (ingestions'[j] = "SUCCEEDED")
                   /\ (jobs'[j].status = ERROR)
                         => (ingestions'[j] = "FAILED")]_vars

\* C29: the model-assisted extractor is invoked only after the structured-data
\* and the heuristic extractors returned nothing and only if the caller opted
\* in; with the flag off, a page that no earlier strategy can parse yields
\* parse_failed without any model call.
C29_LlmLastAndOptIn ==
    LET called == \E i \in DOMAIN call.ran : call.ran[i] = "llm_fallback"
    IN call.fn \in {"parse_recipe_from_url", "parse_recipe"} =>
          /\ called =>
                /\ call.use_llm_fallback
                /\ call.ran = strategies \o <<"llm_fallback">>
                /\ \A i \in DOMAIN strategies :
                      extract(strategies[i], call.doc) = NoRecipe
          /\ (/\ call.pc = "done"
              /\ ~call.use_llm_fallback
              /\ call.doc.fetch.kind = "html"
              /\ \A i \in DOMAIN strategies :
                    extract(strategies[i], call.doc) = NoRecipe)
                => /\ ~called
                   /\ call.res.error_code = "parse_failed"

====
